---- MODULE Spec2Model ----
(***************************************************************************)
(* PDF-to-images converter: the PyMuPDF service (src/main.py) and the      *)
(* pdf2image service (src/app/main.py).                                    *)
(*                                                                         *)
(* Strings are sequences of one-character strings.  An Optional image is   *)
(* a sequence of length 0 (None) or 1; temp_file_path is None or a path.   *)
(* An exception is a record [type, status_code, detail]; NoExc stands for  *)
(* "nothing raised".                                                       *)
(***************************************************************************)
EXTENDS Integers, Sequences, FiniteSets, TLC

VARIABLES pc, endpoint, request, remote, doc, temp_file, temp_file_path,
          unlink_count, total_pages, requested_pages, base64_images,
          successful_pages, renders, raised, response, open_handles

vars == <<pc, endpoint, request, remote, doc, temp_file, temp_file_path,
          unlink_count, total_pages, requested_pages, base64_images,
          successful_pages, renders, raised, response, open_handles>>

(***************************************************************************)
(* Bounds of the model.                                                    *)
(***************************************************************************)
\* longest page-range expression enumerated exhaustively
MaxLen == 3
\* largest page count of the small documents
MaxPages == 3

(***************************************************************************)
(* Configuration (src/main.py 21-24).                                      *)
(***************************************************************************)
MAX_PAGES_PER_REQUEST == 100
MAX_FILE_SIZE == 200 * 1024 * 1024
CHUNK_SIZE == 1024 * 1024
DEFAULT_DPI == 150

(***************************************************************************)
(* Exceptions.                                                             *)
(***************************************************************************)
NoExc == [type |-> "None", status_code |-> 0, detail |-> ""]
ValueError(detail) == [type |-> "ValueError", status_code |-> 0, detail |-> detail]
HTTPException(status_code, detail) ==
    [type |-> "HTTPException", status_code |-> status_code, detail |-> detail]
RequestException(detail) ==
    [type |-> "RequestException", status_code |-> 0, detail |-> detail]
OtherException(detail) == [type |-> "Exception", status_code |-> 0, detail |-> detail]

(***************************************************************************)
(* Python string and number primitives used by parse_page_range.           *)
(***************************************************************************)
Digits == {"0", "1", "2", "3", "4", "5", "6", "7", "8", "9"}
Whitespace == {" ", "\t"}

DigitVal(c) ==
    CASE c = "0" -> 0 [] c = "1" -> 1 [] c = "2" -> 2 [] c = "3" -> 3
      [] c = "4" -> 4 [] c = "5" -> 5 [] c = "6" -> 6 [] c = "7" -> 7
      [] c = "8" -> 8 [] c = "9" -> 9

Chars(s) == {s[i] : i \in 1..Len(s)}

\* str.lower()
LowerChar(c) == CASE c = "A" -> "a" [] c = "L" -> "l" [] OTHER -> c
Lower(s) == [i \in 1..Len(s) |-> LowerChar(s[i])]

\* str.replace(old, '') for a one-character old
Replace(s, old) == SelectSeq(s, LAMBDA c : c # old)

\* str.split(sep): "" splits into [""], "a,,b" into ["a", "", "b"]
RECURSIVE Split(_, _)
Split(s, sep) ==
    IF s = <<>> THEN << <<>> >>
    ELSE LET rest == Split(Tail(s), sep)
         IN  IF Head(s) = sep THEN << <<>> >> \o rest
             ELSE << <<Head(s)>> \o Head(rest) >> \o Tail(rest)

\* str.strip()
RECURSIVE LStrip(_)
LStrip(s) == IF s # <<>> /\ Head(s) \in Whitespace THEN LStrip(Tail(s)) ELSE s
RECURSIVE RStrip(_)
RStrip(s) ==
    IF s # <<>> /\ s[Len(s)] \in Whitespace THEN RStrip(SubSeq(s, 1, Len(s) - 1)) ELSE s
Strip(s) == LStrip(RStrip(s))

RECURSIVE DecimalValue(_)
DecimalValue(s) ==
    IF s = <<>> THEN 0
    ELSE 10 * DecimalValue(SubSeq(s, 1, Len(s) - 1)) + DigitVal(s[Len(s)])

\* int(s): surrounding whitespace is ignored, one optional sign, then decimal
\* digits, single underscores allowed between digits; anything else raises
\* ValueError (ok = FALSE)
python_int(s) ==
    LET t == Strip(s)
        signed == t # <<>> /\ Head(t) \in {"+", "-"}
        body == IF signed THEN Tail(t) ELSE t
        ok == /\ body # <<>>
              /\ Chars(body) \subseteq Digits \cup {"_"}
              /\ body[1] # "_" /\ body[Len(body)] # "_"
              /\ \A i \in 1..(Len(body) - 1) : ~(body[i] = "_" /\ body[i + 1] = "_")
        mag == IF ok THEN DecimalValue(Replace(body, "_")) ELSE 0
    IN  [ok |-> ok, val |-> IF signed /\ Head(t) = "-" THEN 0 - mag ELSE mag]

\* sorted(set) of a set of integers: its elements from the least to the
\* greatest
sorted(S) ==
    IF S = {} THEN <<>>
    ELSE LET lo == CHOOSE x \in S : \A y \in S : x <= y
             hi == CHOOSE x \in S : \A y \in S : x >= y
         IN  SelectSeq([i \in 1..(hi - lo + 1) |-> lo + i - 1], LAMBDA x : x \in S)

\* list(range(a, b + 1))
RangeList(a, b) == [i \in 1..(IF b >= a THEN b - a + 1 ELSE 0) |-> a + i - 1]

(***************************************************************************)
(* parse_page_range                                                        *)
(***************************************************************************)
Returned(ret) == [raised |-> NoExc, ret |-> ret]
Raised(exc) == [raised |-> exc, ret |-> <<>>]

range_without_end(start, end) == start..(end - 1)
\* set(range(start, end + 1))
range_pages(start, end) == start..end

range_check_without_order(start, end, max_pages) == start < 1 \/ end > max_pages
\* the bounds test of a start-end token
range_out_of_bounds(start, end, max_pages) ==
    start < 1 \/ end > max_pages \/ start > end

\* the bounds test of a single-page token
page_out_of_bounds(page, max_pages) == page < 1 \/ page > max_pages

\* the for loop over parts, from part k on, with the set built so far
RECURSIVE parse_parts(_, _, _, _)
parse_parts(parts, k, pages, max_pages) ==
    IF k > Len(parts) THEN Returned(sorted(pages))
    ELSE LET part == parts[k] IN
      IF "-" \in Chars(part)
      THEN LET start_end == Split(part, "-") IN
           IF Len(start_end) # 2 THEN Raised(ValueError("Invalid range"))
           ELSE LET start == python_int(start_end[1])
                    end == python_int(start_end[2])
                IN  IF ~start.ok \/ ~end.ok
                    THEN Raised(ValueError("Invalid numbers in range"))
                    ELSE IF range_out_of_bounds(start.val, end.val, max_pages)
                    THEN Raised(ValueError("Range out of valid bounds"))
                    ELSE parse_parts(parts, k + 1,
                                     pages \cup range_pages(start.val, end.val),
                                     max_pages)
      ELSE LET page == python_int(part) IN
           IF ~page.ok THEN Raised(ValueError("Invalid page number"))
           ELSE IF page_out_of_bounds(page.val, max_pages)
           THEN Raised(ValueError("Page out of valid bounds"))
           ELSE parse_parts(parts, k + 1, pages \cup {page.val}, max_pages)

\* src/app/main.py: no "all" literal
app_parse_page_range(page_range, max_pages) ==
    parse_parts(Split(Replace(page_range, " "), ","), 1, {}, max_pages)

\* src/main.py: the "all" test comes first, on the expression as received
parse_page_range(page_range, max_pages) ==
    IF Lower(page_range) = <<"a", "l", "l">>
    THEN Returned(RangeList(1, max_pages))
    ELSE parse_parts(Split(Replace(page_range, " "), ","), 1, {}, max_pages)

(***************************************************************************)
(* The document library (PyMuPDF) as the code uses it.  A document is      *)
(* [valid, pages, bad]: whether fitz.open accepts the file, its page       *)
(* count, and the pages whose load, rasterization or encoding raises.      *)
(***************************************************************************)
Image(page_num, dpi, use_jpeg) ==
    [page |-> page_num, dpi |-> dpi, format |-> IF use_jpeg THEN "JPEG" ELSE "PNG"]

\* get_pdf_page_count; fault = "len" when len(doc) raises after the open
get_pdf_page_count(d, fault) ==
    IF ~d.valid
    THEN [raised |-> HTTPException(400, "Invalid PDF file"), ret |-> 0,
          opened |-> 0, closed |-> 0]
    ELSE IF fault = "len"
    THEN [raised |-> HTTPException(400, "Invalid PDF file"), ret |-> 0,
          opened |-> 1, closed |-> 0]
    ELSE [raised |-> NoExc, ret |-> d.pages, opened |-> 1, closed |-> 1]

\* bool(doc) of an open document: Document defines __len__ and no __bool__
doc_truthy(d) == d.pages # 0

\* process_single_page: the result is Optional, the except clause swallows
\* every exception, the finally clause closes the document if doc is truthy
process_single_page(d, page_num, dpi, use_jpeg) ==
    IF ~d.valid
    THEN [raised |-> NoExc, ret |-> <<>>, opened |-> 0, closed |-> 0]
    ELSE LET page_index == page_num - 1
             ret == IF page_index >= d.pages \/ page_index < 0 THEN <<>>
                    ELSE IF page_num \in d.bad THEN <<>>
                    ELSE <<Image(page_num, dpi, use_jpeg)>>
         IN  [raised |-> NoExc, ret |-> ret, opened |-> 1,
              closed |-> IF doc_truthy(d) THEN 1 ELSE 0]

collect_always(images, pages, page_num, result) ==
    [images |-> images \o result, pages |-> Append(pages, page_num)]
\* one iteration of process_page_range_low_memory: keep the page if rendered
collect(images, pages, page_num, result) ==
    IF result # <<>>
    THEN [images |-> Append(images, result[1]), pages |-> Append(pages, page_num)]
    ELSE [images |-> images, pages |-> pages]

(***************************************************************************)
(* Values of the variables a specification does not use.                   *)
(***************************************************************************)
NoHeader == -1
None == "None"
Request(page_range, dpi, page) == [page_range |-> page_range, dpi |-> dpi, page |-> page]
Document(valid, pages, bad) == [valid |-> valid, pages |-> pages, bad |-> bad]
Remote(reachable, status_ok, content_length, body, breaks_after) ==
    [reachable |-> reachable, status_ok |-> status_ok,
     content_length |-> content_length, body |-> body, breaks_after |-> breaks_after]
NoFile == [exists |-> FALSE, size |-> 0, created |-> FALSE]
Response(status_code, detail, images, pages, file_size) ==
    [status_code |-> status_code, detail |-> detail, images |-> images,
     total_pages_processed |-> Len(images), pages |-> pages, file_size |-> file_size]
ErrorResponse(status_code, detail) == Response(status_code, detail, <<>>, <<>>, 0)
NoResponse == ErrorResponse(0, "")
NoRemote == Remote(TRUE, TRUE, NoHeader, 0, -1)
NoDocument == Document(TRUE, 0, {})

Locals ==
    /\ temp_file = NoFile
    /\ temp_file_path = None
    /\ unlink_count = 0
    /\ requested_pages = <<>>
    /\ base64_images = <<>>
    /\ successful_pages = <<>>
    /\ renders = 0
    /\ raised = NoExc
    /\ response = NoResponse
    /\ open_handles = 0

(***************************************************************************)
(* SpecParse: parse_page_range of both services applied to every           *)
(* expression of at most MaxLen characters and to the examples.            *)
(***************************************************************************)
Alphabet == {"0", "1", "2", "3", ",", "-", " ", "a", "l", "A"}

Strs(n) == UNION {[1..k -> Alphabet] : k \in 0..n}

Examples ==
    { <<"1", "-", "3", ",", "5", ",", "7", "-", "9">>,
      <<"7", "-", "9", ",", "5", ",", "1", "-", "3">>,
      <<"2", ",", "2", ",", "2">>,
      <<"1", "-", "2", "-", "3">>,
      <<"1", "-", "3", ",", "2", "-", "5">>,
      <<"1", ",", "a", ",", "2">>,
      <<"2", ",", "6", ",", "a">>,
      <<"1", " ", "-", " ", "3", " ", ",", " ", "5">>,
      <<" ", "A", "l", "l", " ">>,
      <<"a", " ", "l", " ", "l">>,
      <<"A", "L", "L">>,
      <<"\t", "1">>,
      <<"+", "2">>,
      <<"1", "0">>,
      <<"1", "_", "0">>,
      <<"_", "1">>,
      <<"1", "-", "1", "0", "0">> }

Expressions == Strs(MaxLen) \cup Examples

InitParse ==
    /\ pc = "call"
    /\ endpoint = "parse_page_range"
    /\ request \in {Request(e, DEFAULT_DPI, 1) : e \in Expressions}
    /\ total_pages \in (0..MaxPages) \cup {5, 10}
    /\ remote = NoRemote
    /\ doc = NoDocument
    /\ Locals

\* parse_page_range(page_range, max_pages) of src/main.py
CallParsePageRange ==
    /\ pc = "call"
    /\ LET r == parse_page_range(request.page_range, total_pages)
       IN  /\ requested_pages' = r.ret
           /\ raised' = r.raised
    /\ pc' = "returned"
    /\ UNCHANGED <<endpoint, request, remote, doc, temp_file, temp_file_path,
                   unlink_count, total_pages, base64_images, successful_pages,
                   renders, response, open_handles>>

\* parse_page_range(page_range, max_pages) of src/app/main.py
CallAppParsePageRange ==
    /\ pc = "call"
    /\ LET r == app_parse_page_range(request.page_range, total_pages)
       IN  /\ requested_pages' = r.ret
           /\ raised' = r.raised
    /\ pc' = "returned_app"
    /\ UNCHANGED <<endpoint, request, remote, doc, temp_file, temp_file_path,
                   unlink_count, total_pages, base64_images, successful_pages,
                   renders, response, open_handles>>

NextParse == CallParsePageRange \/ CallAppParsePageRange

SpecParse == InitParse /\ [][NextParse]_vars

(***************************************************************************)
(* Claims about parse_page_range (checked under SpecParse).                *)
(***************************************************************************)
StrictlyAscending(seq) == \A i \in 1..(Len(seq) - 1) : seq[i] < seq[i + 1]
Elements(seq) == {seq[i] : i \in 1..Len(seq)}
Reverse(seq) == [i \in 1..Len(seq) |-> seq[Len(seq) + 1 - i]]

AllLiteral == <<"a", "l", "l">>
WithoutWhitespace(s) == SelectSeq(s, LAMBDA c : c \notin Whitespace)

\* the comma-separated tokens of an expression, spaces removed
Tokens(expr) == Split(Replace(expr, " "), ",")
Hyphenated(t) == "-" \in Chars(t)
\* a token is well formed when it is an integer, or two integers around one hyphen
TokenSyntaxOK(t) ==
    IF Hyphenated(t)
    THEN LET p == Split(t, "-")
         IN  Len(p) = 2 /\ python_int(p[1]).ok /\ python_int(p[2]).ok
    ELSE python_int(t).ok
\* the pages a well formed token names
TokenPages(t) ==
    IF Hyphenated(t) /\ Len(Split(t, "-")) = 2
    THEN LET p == Split(t, "-") IN python_int(p[1]).val .. python_int(p[2]).val
    ELSE {python_int(t).val}
\* every page and endpoint lies in [1, n] and start <= end
TokenInBounds(t, n) ==
    IF Hyphenated(t) /\ Len(Split(t, "-")) = 2
    THEN LET p == Split(t, "-")
             a == python_int(p[1]).val
             b == python_int(p[2]).val
         IN  a \in 1..n /\ b \in 1..n /\ a <= b
    ELSE python_int(t).val \in 1..n
TokenKind(t, n) ==
    IF ~TokenSyntaxOK(t) THEN "syntax"
    ELSE IF ~TokenInBounds(t, n) THEN "bounds" ELSE "ok"
FirstBad(tokens, n) ==
    CHOOSE i \in 1..Len(tokens) :
        /\ TokenKind(tokens[i], n) # "ok"
        /\ \A j \in 1..(i - 1) : TokenKind(tokens[j], n) = "ok"
ErrorKind(exc) ==
    IF exc.type # "ValueError" THEN "none"
    ELSE IF exc.detail \in {"Invalid range", "Invalid numbers in range",
                            "Invalid page number"} THEN "syntax"
    ELSE IF exc.detail \in {"Range out of valid bounds", "Page out of valid bounds"}
    THEN "bounds" ELSE "none"

ParseReturned == pc \in {"returned", "returned_app"}
\* the call took the "all" branch of src/main.py
TookAllBranch == pc = "returned" /\ Lower(request.page_range) = AllLiteral

\* C1: every accepted expression yields a strictly ascending list of pages
\* within [1, N] that is exactly the union of the pages and inclusive ranges
\* its tokens name, whatever the order of the tokens ("all" names 1..N).
C1_ResultIsSortedUnionOfTokens ==
    (ParseReturned /\ raised = NoExc) =>
        /\ StrictlyAscending(requested_pages)
        /\ Elements(requested_pages) \subseteq 1..total_pages
        /\ IF TookAllBranch
           THEN Elements(requested_pages) = 1..total_pages
           ELSE LET tokens == Tokens(request.page_range)
                IN  /\ Elements(requested_pages) =
                           UNION {TokenPages(tokens[i]) : i \in 1..Len(tokens)}
                    /\ parse_parts(Reverse(tokens), 1, {}, total_pages).ret
                           = requested_pages

C1_Witness ==
    /\ pc = "returned"
    /\ request.page_range = <<"1", "-", "3", ",", "5", ",", "7", "-", "9">>
    /\ total_pages = 10
    /\ requested_pages = <<1, 2, 3, 5, 7, 8, 9>>

\* C2: whenever the expression with all whitespace removed equals "all",
\* case-insensitively, parse_page_range (src/main.py) returns 1..N and
\* raises nothing.
C2_AllAfterStrippingWhitespace ==
    (pc = "returned" /\ total_pages >= 1
        /\ Lower(WithoutWhitespace(request.page_range)) = AllLiteral) =>
        /\ raised = NoExc
        /\ requested_pages = RangeList(1, total_pages)

\* C3: an expression with a bad token never yields a result; the error is
\* the syntax kind when the first bad token is malformed and the
\* out-of-bounds kind when it is well formed but outside [1, N] or reversed.
C3_BadTokenFailsWithItsKind ==
    (ParseReturned /\ ~TookAllBranch) =>
        LET tokens == Tokens(request.page_range)
            bad == {i \in 1..Len(tokens) : TokenKind(tokens[i], total_pages) # "ok"}
        IN  IF bad = {} THEN raised = NoExc
            ELSE /\ requested_pages = <<>>
                 /\ raised.type = "ValueError"
                 /\ ErrorKind(raised) =
                        TokenKind(tokens[FirstBad(tokens, total_pages)], total_pages)

C3_Witness ==
    /\ pc = "returned"
    /\ request.page_range = <<"2", ",", "6", ",", "a">>
    /\ total_pages = 5
    /\ ErrorKind(raised) = "bounds"
    /\ requested_pages = <<>>

(***************************************************************************)
(* Spec: one request to POST /convert-pdf, GET /pdf-info or                *)
(* GET /preview-page of src/main.py, from the download to the finally      *)
(* clause.                                                                 *)
(***************************************************************************)
Endpoints == {"convert", "info", "preview"}
TempPath == "/tmp/tmp.pdf"

\* the except clauses of convert_pdf_to_images
convert_except(exc) ==
    IF exc.type = "RequestException" THEN ErrorResponse(400, "Failed to download PDF")
    ELSE IF exc.type = "ValueError" THEN ErrorResponse(400, exc.detail)
    ELSE IF exc.type = "HTTPException" THEN ErrorResponse(exc.status_code, exc.detail)
    ELSE ErrorResponse(500, "Internal server error")

\* the single except clause of get_pdf_info and of preview_page
info_except(exc) == ErrorResponse(500, exc.detail)

Except(ep, exc) ==
    IF ep = "convert" THEN convert_except(exc)
    ELSE IF ep \in {"info", "preview"} THEN info_except(exc)
    ELSE NoResponse

\* an exception leaves the try block: the matching except clause answers
\* and control goes to the finally clause (a bare function just raises)
Raise(exc) ==
    /\ raised' = exc
    /\ response' = Except(endpoint, exc)
    /\ pc' = IF endpoint \in Endpoints THEN "finally" ELSE "raised"

\* the Content-Length test made before the temp file is created
declared_too_large(content_length) ==
    content_length # NoHeader /\ content_length > MAX_FILE_SIZE

\* download_pdf_to_tempfile up to the creation of the temp file
DownloadStart ==
    /\ pc = "start"
    /\ IF ~remote.reachable
       THEN Raise(RequestException("connection failed")) /\ UNCHANGED temp_file
       ELSE IF ~remote.status_ok
       THEN Raise(RequestException("bad status")) /\ UNCHANGED temp_file
       ELSE IF declared_too_large(remote.content_length)
       THEN Raise(HTTPException(400, "PDF file too large")) /\ UNCHANGED temp_file
       ELSE /\ temp_file' = [exists |-> TRUE, size |-> 0, created |-> TRUE]
            /\ pc' = "streaming"
            /\ UNCHANGED <<raised, response>>
    /\ UNCHANGED <<endpoint, request, remote, doc, temp_file_path, unlink_count,
                   total_pages, requested_pages, base64_images, successful_pages,
                   renders, open_handles>>

Min(a, b) == IF a < b THEN a ELSE b

\* os.unlink(temp_file.name) of the except clause of the streaming loop
stream_failure_unlink(file) == [file EXCEPT !.exists = FALSE]

\* one iteration of the iter_content loop, or its end
DownloadChunk ==
    /\ pc = "streaming"
    /\ LET remaining == remote.body - temp_file.size IN
       IF remote.breaks_after >= 0 /\ temp_file.size >= remote.breaks_after
       THEN /\ temp_file' = stream_failure_unlink(temp_file)
            /\ unlink_count' = unlink_count + 1
            /\ Raise(RequestException("connection broken"))
            /\ UNCHANGED temp_file_path
       ELSE IF remaining > 0
       THEN /\ temp_file' = [temp_file EXCEPT !.size = @ + Min(CHUNK_SIZE, remaining)]
            /\ UNCHANGED <<pc, raised, response, unlink_count, temp_file_path>>
       ELSE /\ temp_file_path' = TempPath
            /\ pc' = IF endpoint \in Endpoints THEN "downloaded" ELSE "returned"
            /\ UNCHANGED <<temp_file, raised, response, unlink_count>>
    /\ UNCHANGED <<endpoint, request, remote, doc, total_pages, requested_pages,
                   base64_images, successful_pages, renders, open_handles>>

\* os.path.getsize and get_pdf_page_count; get_pdf_info answers right after
GetPageCount ==
    /\ pc = "downloaded"
    /\ \E fault \in {"none", "len"} :
         LET r == get_pdf_page_count(doc, fault) IN
         /\ open_handles' = open_handles + r.opened - r.closed
         /\ IF r.raised # NoExc
            THEN Raise(r.raised) /\ UNCHANGED total_pages
            ELSE /\ total_pages' = r.ret
                 /\ raised' = raised
                 /\ IF endpoint = "info"
                    THEN /\ response' = Response(200, "info", <<>>, <<>>, temp_file.size)
                         /\ pc' = "finally"
                    ELSE /\ response' = response
                         /\ pc' = IF endpoint = "convert" THEN "parse" ELSE "check_page"
    /\ UNCHANGED <<endpoint, request, remote, doc, temp_file, temp_file_path,
                   unlink_count, requested_pages, base64_images, successful_pages,
                   renders>>

\* convert_pdf_to_images: parse_page_range and the empty-selection test
ParsePageRange ==
    /\ pc = "parse"
    /\ LET r == parse_page_range(request.page_range, total_pages) IN
       IF r.raised # NoExc
       THEN Raise(r.raised) /\ UNCHANGED requested_pages
       ELSE /\ requested_pages' = r.ret
            /\ IF r.ret = <<>>
               THEN Raise(HTTPException(400, "No valid pages in the specified range"))
               ELSE pc' = "validate" /\ UNCHANGED <<raised, response>>
    /\ UNCHANGED <<endpoint, request, remote, doc, temp_file, temp_file_path,
                   unlink_count, total_pages, base64_images, successful_pages,
                   renders, open_handles>>

too_many_pages(pages) == Len(pages) > MAX_PAGES_PER_REQUEST

dpi_upper_bound_only(dpi) == dpi > 600
dpi_out_of_bounds(dpi) == dpi > 600 \/ dpi < 50

\* convert_pdf_to_images: the page ceiling and the DPI bounds
ValidateCeilings ==
    /\ pc = "validate"
    /\ IF too_many_pages(requested_pages)
       THEN Raise(HTTPException(400, "Too many pages requested"))
       ELSE IF dpi_out_of_bounds(request.dpi)
       THEN Raise(HTTPException(400, IF request.dpi > 600 THEN "DPI too high"
                                                          ELSE "DPI too low"))
       ELSE pc' = "render" /\ UNCHANGED <<raised, response>>
    /\ UNCHANGED <<endpoint, request, remote, doc, temp_file, temp_file_path,
                   unlink_count, total_pages, requested_pages, base64_images,
                   successful_pages, renders, open_handles>>

\* preview_page: the page test; the page becomes the one-page list rendered
CheckPage ==
    /\ pc = "check_page"
    /\ IF request.page < 1 \/ request.page > total_pages
       THEN Raise(HTTPException(400, "Page out of range")) /\ UNCHANGED requested_pages
       ELSE /\ requested_pages' = <<request.page>>
            /\ pc' = "render"
            /\ UNCHANGED <<raised, response>>
    /\ UNCHANGED <<endpoint, request, remote, doc, temp_file, temp_file_path,
                   unlink_count, total_pages, base64_images, successful_pages,
                   renders, open_handles>>

\* one iteration of the loop of process_page_range_low_memory
RenderPage ==
    /\ pc = "render"
    /\ renders < Len(requested_pages)
    /\ LET page_num == requested_pages[renders + 1]
           r == process_single_page(doc, page_num, request.dpi, TRUE)
           c == collect(base64_images, successful_pages, page_num, r.ret)
       IN  /\ base64_images' = c.images
           /\ successful_pages' = c.pages
           /\ open_handles' = open_handles + r.opened - r.closed
    /\ renders' = renders + 1
    /\ UNCHANGED <<pc, endpoint, request, remote, doc, temp_file, temp_file_path,
                   unlink_count, total_pages, requested_pages, raised, response>>

\* after the loop: the all-pages-failed test and the success response
Respond ==
    /\ pc = "render"
    /\ renders = Len(requested_pages)
    /\ IF base64_images = <<>>
       THEN Raise(HTTPException(500, IF endpoint = "convert"
                                     THEN "Failed to convert any pages"
                                     ELSE "Failed to convert page"))
       ELSE /\ response' = IF endpoint = "convert"
                           THEN Response(200, "converted", base64_images,
                                         successful_pages, temp_file.size)
                           ELSE Response(200, "preview", <<base64_images[1]>>,
                                         <<successful_pages[1]>>, 0)
            /\ pc' = "finally"
            /\ UNCHANGED raised
    /\ UNCHANGED <<endpoint, request, remote, doc, temp_file, temp_file_path,
                   unlink_count, total_pages, requested_pages, base64_images,
                   successful_pages, renders, open_handles>>

finally_skips_unlink(path, file) == FALSE
\* the test of the finally clause: temp_file_path and os.path.exists(...)
finally_unlinks(path, file) == path # None /\ file.exists

\* the finally clause of the three endpoints
Finally ==
    /\ pc = "finally"
    /\ IF finally_unlinks(temp_file_path, temp_file)
       THEN /\ temp_file' = [temp_file EXCEPT !.exists = FALSE]
            /\ unlink_count' = unlink_count + 1
       ELSE UNCHANGED <<temp_file, unlink_count>>
    /\ pc' = "done"
    /\ UNCHANGED <<endpoint, request, remote, doc, temp_file_path, total_pages,
                   requested_pages, base64_images, successful_pages, renders,
                   raised, response, open_handles>>

\* documents of at most MaxPages pages, each with any set of bad pages, and
\* documents at the page ceiling
SmallDocuments ==
    {Document(TRUE, n, b) : n \in 0..MaxPages, b \in SUBSET (1..MaxPages)}
LargeDocuments ==
    {Document(TRUE, MAX_PAGES_PER_REQUEST, {}),
     Document(TRUE, MAX_PAGES_PER_REQUEST + 1, {}),
     Document(TRUE, MAX_PAGES_PER_REQUEST + 1, {2})}
Documents ==
    {d \in SmallDocuments : d.bad \subseteq 1..d.pages}
        \cup LargeDocuments \cup {Document(FALSE, 0, {})}

\* remote servers: unreachable, answering an error status, declaring too
\* large a body, and serving a body with or without a (truthful or false)
\* Content-Length, the connection breaking or not
Remotes ==
    {Remote(FALSE, TRUE, NoHeader, 0, -1),
     Remote(TRUE, FALSE, NoHeader, 0, -1),
     Remote(TRUE, TRUE, MAX_FILE_SIZE + 1, MAX_FILE_SIZE + 1, -1),
     Remote(TRUE, TRUE, NoHeader, 1, -1),
     Remote(TRUE, TRUE, CHUNK_SIZE + 1, CHUNK_SIZE + 1, -1),
     Remote(TRUE, TRUE, 1, CHUNK_SIZE + 1, -1),
     Remote(TRUE, TRUE, NoHeader, CHUNK_SIZE + 1, 0),
     Remote(TRUE, TRUE, NoHeader, CHUNK_SIZE + 1, CHUNK_SIZE)}
\* bodies at and over the size ceiling, undeclared or declared smaller
LargeRemotes ==
    {Remote(TRUE, TRUE, NoHeader, MAX_FILE_SIZE + 1, -1),
     Remote(TRUE, TRUE, 1, MAX_FILE_SIZE + CHUNK_SIZE, -1),
     Remote(TRUE, TRUE, NoHeader, MAX_FILE_SIZE, -1)}

ConvertExpressions ==
    { <<"1">>, <<"2", ",", "1">>, <<"1", ",", "3">>, <<"2", "-", "3">>,
      <<"a", "l", "l">>, <<"a">>, <<"3", "-", "1">>, <<"0">>,
      <<"1", "-", "1", "0", "0">>, <<"1", "-", "1", "0", "1">> }
DpiValues == {49, 50, DEFAULT_DPI, 600, 601}

Init ==
    /\ pc = "start"
    /\ \/ /\ endpoint = "convert"
          /\ request \in {Request(e, d, 1) : e \in ConvertExpressions, d \in DpiValues}
          /\ remote \in Remotes
       \/ /\ endpoint = "info"
          /\ request = Request(<<>>, DEFAULT_DPI, 1)
          /\ remote \in Remotes \cup LargeRemotes
       \/ /\ endpoint = "preview"
          /\ request \in {Request(<<>>, 100, p) : p \in 0..(MaxPages + 1)}
          /\ remote \in Remotes
    /\ doc \in Documents
    /\ total_pages = 0
    /\ Locals

Next ==
    \/ DownloadStart
    \/ DownloadChunk
    \/ GetPageCount
    \/ ParsePageRange
    \/ ValidateCeilings
    \/ CheckPage
    \/ RenderPage
    \/ Respond
    \/ Finally

Spec == Init /\ [][Next]_vars

(***************************************************************************)
(* Claims about a request (checked under Spec).                            *)
(***************************************************************************)
Answered == pc \in {"finally", "done"}

\* C4: the bytes written to the temp file never exceed MAX_FILE_SIZE, and a
\* path is returned only for a file of at most MAX_FILE_SIZE bytes.
C4_TempFileWithinCeiling == temp_file.size <= MAX_FILE_SIZE

\* whether process_single_page yields an image for a page of this request
Rendered(p) == process_single_page(doc, p, request.dpi, TRUE).ret # <<>>

\* C5: /convert-pdf answers success exactly when some resolved page was
\* rendered; then pages is the subsequence of the resolved pages that were
\* rendered, strictly ascending, images[i] is the image of pages[i] and
\* total_pages_processed = len(pages); when every resolved page fails the
\* answer is the 500 all-pages-failed error.
C5_SuccessIffSomePageRendered ==
    (endpoint = "convert" /\ Answered) =>
        LET attempted == SubSeq(requested_pages, 1, renders)
            succeeded == SelectSeq(attempted, Rendered)
        IN  /\ response.status_code = 200 <=> succeeded # <<>>
            /\ response.status_code = 200 =>
                 /\ response.pages = SelectSeq(requested_pages, Rendered)
                 /\ Len(response.images) = Len(response.pages)
                 /\ \A i \in 1..Len(response.pages) :
                        response.images[i] = Image(response.pages[i], request.dpi, TRUE)
                 /\ StrictlyAscending(response.pages)
                 /\ response.total_pages_processed = Len(response.pages)
            /\ (renders > 0 /\ succeeded = <<>>) =>
                 /\ renders = Len(requested_pages)
                 /\ response.status_code = 500
                 /\ response.detail = "Failed to convert any pages"

C5_Witness ==
    /\ endpoint = "convert"
    /\ pc = "done"
    /\ response.status_code = 200
    /\ requested_pages = <<1, 3>>
    /\ response.pages = <<3>>

\* C6: the temp file of a request is unlinked exactly once and no longer
\* exists when the request ends, on every path of the three endpoints; no
\* path unlinks twice.
C6_TempFileReleasedOnce ==
    /\ unlink_count <= 1
    /\ pc = "done" =>
         /\ ~temp_file.exists
         /\ unlink_count = IF temp_file.created THEN 1 ELSE 0

C6_Witness ==
    /\ pc = "done"
    /\ endpoint = "convert"
    /\ raised.type = "ValueError"
    /\ temp_file.created
    /\ unlink_count = 1

\* the request is one that the range parser or a ceiling rejects
Rejected ==
    LET r == parse_page_range(request.page_range, doc.pages)
    IN  \/ r.raised # NoExc
        \/ r.ret = <<>>
        \/ Len(r.ret) > MAX_PAGES_PER_REQUEST
        \/ request.dpi < 50
        \/ request.dpi > 600

\* C7: a /convert-pdf request rejected for its range, an empty selection,
\* too many pages or its dpi renders no page; pages are rendered only after
\* the download, the page count and the range resolution.
C7_RejectedBeforeRendering ==
    endpoint = "convert" =>
        /\ Rejected => (renders = 0 /\ base64_images = <<>>)
        /\ renders > 0 =>
             /\ temp_file_path # None
             /\ total_pages = doc.pages
             /\ requested_pages = parse_page_range(request.page_range, total_pages).ret

C7_Witness ==
    /\ endpoint = "convert"
    /\ pc = "done"
    /\ raised.detail = "Too many pages requested"
    /\ response.status_code = 400
    /\ renders = 0

\* C8: in the three endpoints a client input error, a transfer error and a
\* malformed document are answered with a 4xx status; an error an inner
\* component classified as 4xx is never answered as 5xx.
C8_ClientErrorsAnswered4xx ==
    (endpoint \in Endpoints /\ Answered
        /\ \/ raised.type \in {"RequestException", "ValueError"}
           \/ raised.type = "HTTPException" /\ raised.status_code \in 400..499) =>
        response.status_code \in 400..499

(***************************************************************************)
(* SpecHandles: get_pdf_page_count and process_single_page called on any   *)
(* document.                                                               *)
(***************************************************************************)
InitHandles ==
    /\ pc = "call"
    /\ endpoint \in {"get_pdf_page_count", "process_single_page"}
    /\ request \in {Request(<<>>, DEFAULT_DPI, p) : p \in 0..(MaxPages + 1)}
    /\ endpoint = "get_pdf_page_count" => request.page = 1
    /\ doc \in Documents
    /\ remote = NoRemote
    /\ total_pages = 0
    /\ Locals

CallGetPdfPageCount ==
    /\ pc = "call"
    /\ endpoint = "get_pdf_page_count"
    /\ \E fault \in {"none", "len"} :
         LET r == get_pdf_page_count(doc, fault) IN
         /\ open_handles' = open_handles + r.opened - r.closed
         /\ total_pages' = r.ret
         /\ raised' = r.raised
         /\ pc' = IF r.raised # NoExc THEN "raised" ELSE "returned"
    /\ UNCHANGED <<endpoint, request, remote, doc, temp_file, temp_file_path,
                   unlink_count, requested_pages, base64_images, successful_pages,
                   renders, response>>

CallProcessSinglePage ==
    /\ pc = "call"
    /\ endpoint = "process_single_page"
    /\ LET r == process_single_page(doc, request.page, request.dpi, TRUE) IN
         /\ open_handles' = open_handles + r.opened - r.closed
         /\ base64_images' = r.ret
         /\ raised' = r.raised
         /\ pc' = IF r.raised # NoExc THEN "raised" ELSE "returned"
    /\ renders' = renders + 1
    /\ UNCHANGED <<endpoint, request, remote, doc, temp_file, temp_file_path,
                   unlink_count, total_pages, requested_pages, successful_pages,
                   response>>

NextHandles == CallGetPdfPageCount \/ CallProcessSinglePage

SpecHandles == InitHandles /\ [][NextHandles]_vars

\* C9: when get_pdf_page_count or process_single_page has returned or
\* raised, every document handle it opened is closed, for any document
\* (zero pages included); process_single_page raises nothing.
C9_HandlesClosedOnReturn ==
    (pc \in {"returned", "raised"}) =>
        /\ open_handles = 0
        /\ endpoint = "process_single_page" => raised = NoExc

(***************************************************************************)
(* SpecApp: one request to POST /convert-pdf of src/app/main.py.           *)
(***************************************************************************)
APP_DEFAULT_DPI == 200

\* the except clauses of convert_pdf_to_images (src/app/main.py)
app_except(exc) ==
    IF exc.type = "RequestException" THEN ErrorResponse(400, "Failed to download PDF")
    ELSE IF exc.type = "ValueError" THEN ErrorResponse(400, exc.detail)
    ELSE ErrorResponse(500, "Internal server error")

\* pdf2image.convert_from_bytes(first_page, last_page): one image per page
\* of the document from first_page to last_page
convert_from_bytes(d, dpi, first_page, last_page) ==
    LET last == Min(last_page, d.pages)
    IN  [i \in 1..(IF last >= first_page THEN last - first_page + 1 ELSE 0) |->
            Image(first_page + i - 1, dpi, FALSE)]

SeqMin(seq) == CHOOSE x \in Elements(seq) : \A y \in Elements(seq) : x <= y
SeqMax(seq) == CHOOSE x \in Elements(seq) : \A y \in Elements(seq) : x >= y

InitApp ==
    /\ pc = "start"
    /\ endpoint = "app_convert"
    /\ request \in {Request(e, APP_DEFAULT_DPI, 1) : e \in ConvertExpressions}
    /\ remote \in {Remote(FALSE, TRUE, NoHeader, 0, -1),
                   Remote(TRUE, FALSE, NoHeader, 0, -1),
                   Remote(TRUE, TRUE, NoHeader, 1, -1)}
    /\ doc \in {d \in Documents : d.bad = {}}
    /\ total_pages = 0
    /\ Locals

\* requests.get, raise_for_status, response.content
AppDownload ==
    /\ pc = "start"
    /\ IF ~remote.reachable
       THEN /\ raised' = RequestException("connection failed")
            /\ response' = app_except(raised')
            /\ pc' = "done"
       ELSE IF ~remote.status_ok
       THEN /\ raised' = RequestException("bad status")
            /\ response' = app_except(raised')
            /\ pc' = "done"
       ELSE pc' = "fetched" /\ UNCHANGED <<raised, response>>
    /\ UNCHANGED <<endpoint, request, remote, doc, temp_file, temp_file_path,
                   unlink_count, total_pages, requested_pages, base64_images,
                   successful_pages, renders, open_handles>>

\* the page count, the range, the conversion and the response
AppConvert ==
    /\ pc = "fetched"
    /\ pc' = "done"
    /\ IF ~doc.valid
       THEN /\ raised' = OtherException("Unable to get page count")
            /\ response' = app_except(raised')
            /\ UNCHANGED <<total_pages, requested_pages, base64_images>>
       ELSE LET r == app_parse_page_range(request.page_range, doc.pages) IN
            /\ total_pages' = doc.pages
            /\ IF r.raised # NoExc
               THEN /\ raised' = r.raised
                    /\ response' = app_except(raised')
                    /\ UNCHANGED <<requested_pages, base64_images>>
               ELSE /\ requested_pages' = r.ret
                    /\ IF r.ret = <<>>
                       THEN /\ raised' = HTTPException(400, "No valid pages in the specified range")
                            /\ response' = app_except(raised')
                            /\ UNCHANGED base64_images
                       ELSE /\ base64_images' =
                                   convert_from_bytes(doc, request.dpi,
                                                      SeqMin(r.ret), SeqMax(r.ret))
                            /\ response' = Response(200, "converted", base64_images',
                                                    r.ret, 0)
                            /\ UNCHANGED raised
    /\ UNCHANGED <<endpoint, request, remote, doc, temp_file, temp_file_path,
                   unlink_count, successful_pages, renders, open_handles>>

NextApp == AppDownload \/ AppConvert

SpecApp == InitApp /\ [][NextApp]_vars

\* C10: a success response of the pdf2image service holds exactly one image
\* per entry of pages, images[i] being the rendering of pages[i], and
\* total_pages_processed = len(pages).
C10_OneImagePerRequestedPage ==
    (endpoint = "app_convert" /\ pc = "done" /\ response.status_code = 200) =>
        /\ Len(response.images) = Len(response.pages)
        /\ \A i \in 1..Len(response.pages) :
               response.images[i] = Image(response.pages[i], request.dpi, FALSE)
        /\ response.total_pages_processed = Len(response.pages)

====
